---- MODULE Spec2Model ----
(***************************************************************************)
(* Builtin pattern-language functions of the hex editor plugin             *)
(* (plugins/builtin/source/content/pl_builtin_functions.cpp):              *)
(*   - the registrations made by registerPatternLanguageFunctions,         *)
(*   - the std::file handle table (fileCounter / openFiles),               *)
(*   - std::mem::find_sequence_in_range,                                   *)
(*   - std::string::at and std::string::substr.                            *)
(***************************************************************************)
EXTENDS Integers, Sequences, FiniteSets

(* ---------------------------- bounds ----------------------------------- *)
\* successful std::file::open calls explored (fileCounter is a u32 in the code)
MaxOpens == 3
\* largest data buffer handed to std::mem functions
MaxData == 4
\* longest byte sequence searched for
MaxSeq == 3
\* longest string handed to std::string functions
MaxStr == 3

VARIABLES
    registry,          \* function table filled by registerPatternLanguageFunctions
    dangerousAllowed,  \* host permission for Dangerous functions
    fileCounter,       \* static u32 fileCounter
    openFiles,         \* static std::map<u32, fs::File> openFiles  (id -> path)
    lastCall,          \* the builtin call made by the last step
    result,            \* what that call returned / how it aborted
    effect,            \* resource operation performed by that call
    closedIds,         \* ids for which close() has succeeded
    issued,            \* ids returned by open(), in order
    data,              \* the evaluator's data buffer (ctx->readData / getDataSize)
    memCall,           \* last std::mem call
    memResult,         \* its outcome
    strCall,           \* last std::string call
    strResult          \* its outcome

fileVars == <<registry, dangerousAllowed, fileCounter, openFiles, lastCall,
              result, effect, closedIds, issued>>
memVars  == <<data, memCall, memResult>>
strVars  == <<strCall, strResult>>
vars     == <<fileVars, memVars, strVars>>

(* ------------------------- registrations ------------------------------- *)
\* FunctionParameterCount::none / exactly / atLeast / moreThan
None        == [kind |-> "exactly",  n |-> 0]
Exactly(n)  == [kind |-> "exactly",  n |-> n]
AtLeast(n)  == [kind |-> "atLeast",  n |-> n]
MoreThan(n) == [kind |-> "moreThan", n |-> n]

\* ContentRegistry::PatternLanguage::addFunction
AddFunction(ns, name, count) ==
    [ns |-> ns, name |-> name, count |-> count, dangerous |-> FALSE]

\* ContentRegistry::PatternLanguage::addDangerousFunction
AddDangerousFunction(ns, name, count) ==
    [ns |-> ns, name |-> name, count |-> count, dangerous |-> TRUE]

StdCalls ==
    << AddFunction("std", "print",       MoreThan(0)),
       AddFunction("std", "format",      MoreThan(0)),
       AddFunction("std", "env",         Exactly(1)),
       AddFunction("std", "sizeof_pack", AtLeast(0)),
       AddFunction("std", "error",       Exactly(1)),
       AddFunction("std", "warning",     Exactly(1)) >>

MemCalls ==
    << AddFunction("std.mem", "base_address",           None),
       AddFunction("std.mem", "size",                   None),
       AddFunction("std.mem", "find_sequence_in_range", MoreThan(3)),
       AddFunction("std.mem", "read_unsigned",          Exactly(2)),
       AddFunction("std.mem", "read_signed",            Exactly(2)),
       AddFunction("std.mem", "read_string",            Exactly(2)) >>

StringCalls ==
    << AddFunction("std.string", "length",      Exactly(1)),
       AddFunction("std.string", "at",          Exactly(2)),
       AddFunction("std.string", "substr",      Exactly(3)),
       AddFunction("std.string", "parse_int",   Exactly(2)),
       AddFunction("std.string", "parse_float", Exactly(1)) >>

HttpCalls ==
    << AddDangerousFunction("std.http", "get", Exactly(1)) >>

\* std::file::open registered through addFunction instead of addDangerousFunction
FileCallsOpenStandard ==
    << AddFunction("std.file", "open",            Exactly(2)),
       AddDangerousFunction("std.file", "close",  Exactly(1)),
       AddDangerousFunction("std.file", "read",   Exactly(2)),
       AddDangerousFunction("std.file", "write",  Exactly(2)),
       AddDangerousFunction("std.file", "seek",   Exactly(2)),
       AddDangerousFunction("std.file", "size",   Exactly(1)),
       AddDangerousFunction("std.file", "resize", Exactly(2)),
       AddDangerousFunction("std.file", "flush",  Exactly(1)),
       AddDangerousFunction("std.file", "remove", Exactly(1)) >>

FileCalls ==
    << AddDangerousFunction("std.file", "open",   Exactly(2)),
       AddDangerousFunction("std.file", "close",  Exactly(1)),
       AddDangerousFunction("std.file", "read",   Exactly(2)),
       AddDangerousFunction("std.file", "write",  Exactly(2)),
       AddDangerousFunction("std.file", "seek",   Exactly(2)),
       AddDangerousFunction("std.file", "size",   Exactly(1)),
       AddDangerousFunction("std.file", "resize", Exactly(2)),
       AddDangerousFunction("std.file", "flush",  Exactly(1)),
       AddDangerousFunction("std.file", "remove", Exactly(1)) >>

\* the second "atan" is the registration under the comment /* atan2(y, x) */
MathCalls ==
    << AddFunction("std.math", "floor", Exactly(1)),
       AddFunction("std.math", "ceil",  Exactly(1)),
       AddFunction("std.math", "round", Exactly(1)),
       AddFunction("std.math", "trunc", Exactly(1)),
       AddFunction("std.math", "log10", Exactly(1)),
       AddFunction("std.math", "log2",  Exactly(1)),
       AddFunction("std.math", "ln",    Exactly(1)),
       AddFunction("std.math", "fmod",  Exactly(2)),
       AddFunction("std.math", "pow",   Exactly(2)),
       AddFunction("std.math", "sqrt",  Exactly(1)),
       AddFunction("std.math", "cbrt",  Exactly(1)),
       AddFunction("std.math", "sin",   Exactly(1)),
       AddFunction("std.math", "cos",   Exactly(1)),
       AddFunction("std.math", "tan",   Exactly(1)),
       AddFunction("std.math", "asin",  Exactly(1)),
       AddFunction("std.math", "acos",  Exactly(1)),
       AddFunction("std.math", "atan",  Exactly(1)),
       AddFunction("std.math", "atan",  Exactly(1)),
       AddFunction("std.math", "sinh",  Exactly(1)),
       AddFunction("std.math", "cosh",  Exactly(1)),
       AddFunction("std.math", "tanh",  Exactly(1)),
       AddFunction("std.math", "asinh", Exactly(1)),
       AddFunction("std.math", "acosh", Exactly(1)),
       AddFunction("std.math", "atanh", Exactly(1)) >>

\* the registration calls of registerPatternLanguageFunctions, in program order
RegCalls ==
    StdCalls \o MemCalls \o StringCalls \o HttpCalls \o FileCalls \o MathCalls

RegistrationDone == Len(registry) = Len(RegCalls)

\* one registration call of registerPatternLanguageFunctions
Register ==
    /\ Len(registry) < Len(RegCalls)
    /\ registry' = Append(registry, RegCalls[Len(registry) + 1])
    /\ UNCHANGED <<dangerousAllowed, fileCounter, openFiles, lastCall, result,
                   effect, closedIds, issued>>
    /\ UNCHANGED <<memVars, strVars>>

(* --------------------------- dispatcher -------------------------------- *)
IsDangerous(ns, name) ==
    \E i \in 1..Len(registry) :
        /\ registry[i].ns = ns
        /\ registry[i].name = name
        /\ registry[i].dangerous

\* the host gate in front of Dangerous functions
Permitted(ns, name) == ~IsDangerous(ns, name) \/ dangerousAllowed

(* --------------------------- results ----------------------------------- *)
NoResult     == [kind |-> "none",    msg |-> "", val |-> 0]
Void         == [kind |-> "void",    msg |-> "", val |-> 0]
Refused      == [kind |-> "refused", msg |-> "", val |-> 0]
Abort(m)     == [kind |-> "abort",   msg |-> m,  val |-> 0]
Value(v)     == [kind |-> "value",   msg |-> "", val |-> v]
NoEffect     == [op |-> "none", id |-> 0]
Effect(o, i) == [op |-> o, id |-> i]
\* a 128-bit unsigned literal (Token::literalToUnsigned), held as the bits
\* above bit 31 (hi) and the low 32 bits (lo): its value is hi * 2^32 + lo
U128(hi, lo) == [hi |-> hi, lo |-> lo]
\* conversion of a u128 argument to u32, the key type of openFiles
ToU32(v)     == v.lo
NoCall       == [fn |-> "none", file |-> U128(0, 0), arg |-> 0, path |-> "", valid |-> FALSE]
FileCall(f, id, a) ==
    [fn |-> f, file |-> id, arg |-> a, path |-> "", valid |-> FALSE]
OpenCall(p, m, v) ==
    [fn |-> "open", file |-> U128(0, 0), arg |-> m, path |-> p, valid |-> v]

InvalidFile == "failed to access invalid file"

(* ------------------------- std::file handlers -------------------------- *)
Paths   == {"a", "b"}
\* mode codes tried: 1 = Read, 2 = Write, 3 = Create, 0 and 4 are no mode
Modes   == 0..4
\* sizes / offsets / data handed to read, write, seek, resize
AuxArgs == {0, 1}
\* handle arguments tried: never issued (0, MaxOpens + 1), issued, closed
Ids     == 0..(MaxOpens + 1)
\* the same values, and the values 2^32 above them
FileArgs == {U128(hi, lo) : hi \in {0, 1}, lo \in Ids}

\* openFiles.contains(file): contains(const u32 &) called with a u128
Contains(file) == ToU32(file) \in DOMAIN openFiles

\* openFiles.emplace(std::pair { id, file }): an existing key is kept
Emplace(id, file) ==
    [k \in DOMAIN openFiles \cup {id} |->
        IF k \in DOMAIN openFiles THEN openFiles[k] ELSE file]

\* openFiles.erase(file): erase(const u32 &) called with a u128
Erase(file) == [k \in DOMAIN openFiles \ {ToU32(file)} |-> openFiles[k]]

Performed(op, id) == effect' = Effect(op, id)

NothingPerformed == effect' = NoEffect

TableUnchanged == UNCHANGED <<fileCounter, openFiles, closedIds, issued>>

\* open() that takes the id from the counter before it increments it
OpenStaleId(path, modeEnum, valid) ==
    IF modeEnum \notin {1, 2, 3}
    THEN /\ result' = Abort("invalid file open mode")
         /\ NothingPerformed
         /\ TableUnchanged
    ELSE IF ~valid
    THEN /\ result' = Abort("failed to open file")
         /\ Performed("open", 0)
         /\ TableUnchanged
    ELSE /\ Performed("open", fileCounter)
         /\ fileCounter' = fileCounter + 1
         /\ openFiles' = Emplace(fileCounter, path)
         /\ result' = Value(fileCounter)
         /\ issued' = Append(issued, fileCounter)
         /\ UNCHANGED closedIds

\* open() that increments the counter before it checks file.isValid()
OpenCountsFailures(path, modeEnum, valid) ==
    IF modeEnum \notin {1, 2, 3}
    THEN /\ result' = Abort("invalid file open mode")
         /\ NothingPerformed
         /\ TableUnchanged
    ELSE IF ~valid
    THEN /\ result' = Abort("failed to open file")
         /\ Performed("open", 0)
         /\ fileCounter' = fileCounter + 1
         /\ UNCHANGED <<openFiles, closedIds, issued>>
    ELSE /\ Performed("open", fileCounter + 1)
         /\ fileCounter' = fileCounter + 1
         /\ openFiles' = Emplace(fileCounter + 1, path)
         /\ result' = Value(fileCounter + 1)
         /\ issued' = Append(issued, fileCounter + 1)
         /\ UNCHANGED closedIds

\* std::file::open(path, mode); valid is the outcome of file.isValid()
Open(path, modeEnum, valid) ==
    IF modeEnum \notin {1, 2, 3}
    THEN /\ result' = Abort("invalid file open mode")
         /\ NothingPerformed
         /\ TableUnchanged
    ELSE IF ~valid
    THEN /\ result' = Abort("failed to open file")
         /\ Performed("open", 0)
         /\ TableUnchanged
    ELSE /\ Performed("open", fileCounter + 1)
         /\ fileCounter' = fileCounter + 1
         /\ openFiles' = Emplace(fileCounter + 1, path)
         /\ result' = Value(fileCounter + 1)
         /\ issued' = Append(issued, fileCounter + 1)
         /\ UNCHANGED closedIds

\* close() that releases nothing
CloseKeepsEntry(file) ==
    IF ~Contains(file)
    THEN /\ result' = Abort(InvalidFile)
         /\ NothingPerformed
         /\ TableUnchanged
    ELSE /\ closedIds' = closedIds \cup {ToU32(file)}
         /\ result' = Void
         /\ Performed("close", ToU32(file))
         /\ UNCHANGED <<fileCounter, openFiles, issued>>

\* std::file::close(file)
Close(file) ==
    IF ~Contains(file)
    THEN /\ result' = Abort(InvalidFile)
         /\ NothingPerformed
         /\ TableUnchanged
    ELSE /\ openFiles' = Erase(file)
         /\ closedIds' = closedIds \cup {ToU32(file)}
         /\ result' = Void
         /\ Performed("close", ToU32(file))
         /\ UNCHANGED <<fileCounter, issued>>

\* the body shared by read, write, seek, size, resize, flush and remove:
\* the contains() check, then one call on openFiles[file]
OnFile(file, op, ret) ==
    IF ~Contains(file)
    THEN /\ result' = Abort(InvalidFile)
         /\ NothingPerformed
         /\ TableUnchanged
    ELSE /\ Performed(op, ToU32(file))
         /\ result' = ret
         /\ TableUnchanged

\* std::file::read(file, size): openFiles[file].readString(size)
Read(file, size)   == OnFile(file, "readString", Value(size))
\* std::file::write(file, data): openFiles[file].write(data)
Write(file, dat)   == OnFile(file, "write", Void)
\* std::file::seek(file, offset): openFiles[file].seek(offset)
Seek(file, offset) == OnFile(file, "seek", Void)
\* std::file::size(file): openFiles[file].getSize(); sz is what the file reports
Size(file, sz)     == OnFile(file, "getSize", Value(sz))
\* std::file::resize(file, size): openFiles[file].setSize(size)
Resize(file, size) == OnFile(file, "setSize", Void)
\* std::file::flush(file): openFiles[file].flush()
Flush(file)        == OnFile(file, "flush", Void)
\* remove() that also erases the entry from openFiles
RemoveErasesEntry(file) ==
    IF ~Contains(file)
    THEN /\ result' = Abort(InvalidFile)
         /\ NothingPerformed
         /\ TableUnchanged
    ELSE /\ Performed("remove", ToU32(file))
         /\ result' = Void
         /\ openFiles' = Erase(file)
         /\ UNCHANGED <<fileCounter, closedIds, issued>>

\* std::file::remove(file): openFiles[file].remove()
Remove(file)       == OnFile(file, "remove", Void)

\* std::http::get(url): net.getString(url).get().body
Get(url) ==
    /\ Performed("getString", 0)
    /\ result' = Value(url)
    /\ TableUnchanged

(* ------------------- calls made by the evaluator ----------------------- *)
\* a Dangerous function the host has not permitted is not invoked
Refuse ==
    /\ result' = Refused
    /\ NothingPerformed
    /\ TableUnchanged

Dispatch(ns, name, call, body) ==
    /\ RegistrationDone
    /\ lastCall' = call
    /\ IF Permitted(ns, name) THEN body ELSE Refuse
    /\ UNCHANGED <<registry, dangerousAllowed>>
    /\ UNCHANGED <<memVars, strVars>>

CallOpen ==
    /\ fileCounter < MaxOpens
    /\ \E path \in Paths, modeEnum \in Modes, valid \in BOOLEAN :
          Dispatch("std.file", "open", OpenCall(path, modeEnum, valid),
                   Open(path, modeEnum, valid))

CallClose ==
    \E file \in FileArgs :
        Dispatch("std.file", "close", FileCall("close", file, 0), Close(file))

CallRead ==
    \E file \in FileArgs, size \in AuxArgs :
        Dispatch("std.file", "read", FileCall("read", file, size), Read(file, size))

CallWrite ==
    \E file \in FileArgs, dat \in AuxArgs :
        Dispatch("std.file", "write", FileCall("write", file, dat), Write(file, dat))

CallSeek ==
    \E file \in FileArgs, offset \in AuxArgs :
        Dispatch("std.file", "seek", FileCall("seek", file, offset), Seek(file, offset))

CallSize ==
    \E file \in FileArgs, sz \in AuxArgs :
        Dispatch("std.file", "size", FileCall("size", file, 0), Size(file, sz))

CallResize ==
    \E file \in FileArgs, size \in AuxArgs :
        Dispatch("std.file", "resize", FileCall("resize", file, size), Resize(file, size))

CallFlush ==
    \E file \in FileArgs :
        Dispatch("std.file", "flush", FileCall("flush", file, 0), Flush(file))

CallRemove ==
    \E file \in FileArgs :
        Dispatch("std.file", "remove", FileCall("remove", file, 0), Remove(file))

CallGet ==
    \E url \in AuxArgs :
        Dispatch("std.http", "get", FileCall("get", U128(0, 0), url), Get(url))

MemIdle == data = <<>> /\ memCall = [fn |-> "none"] /\ memResult = [kind |-> "none"]
StrIdle == strCall = [fn |-> "none"] /\ strResult = [kind |-> "none"]

Init ==
    /\ registry = <<>>
    /\ dangerousAllowed \in BOOLEAN
    /\ fileCounter = 0
    /\ openFiles = << >>
    /\ lastCall = NoCall
    /\ result = NoResult
    /\ effect = NoEffect
    /\ closedIds = {}
    /\ issued = <<>>
    /\ MemIdle
    /\ StrIdle

Next ==
    \/ Register
    \/ CallOpen
    \/ CallClose
    \/ CallRead
    \/ CallWrite
    \/ CallSeek
    \/ CallSize
    \/ CallResize
    \/ CallFlush
    \/ CallRemove
    \/ CallGet

Spec == Init /\ [][Next]_vars

(* -------------------- std::mem::find_sequence_in_range ----------------- *)
\* byte values held by the data buffer (0xAA, 0xBB)
DataBytes == {170, 187}
\* byte arguments tried; 256 is the smallest value above 0xFF
ByteArgs  == {170, 187, 256}
\* offsets tried, all below 2^64 (the width of the loop variable)
Offsets   == 0..(MaxData + 1)
Indexes   == 0..2
SeqOver(S, n) == UNION {[1..k -> S] : k \in 0..n}
Buffers   == SeqOver(DataBytes, MaxData)
Sequences == SeqOver(ByteArgs, MaxSeq) \ {<<>>}

Min(a, b) == IF a < b THEN a ELSE b

\* first trailing argument (params index, from 3) whose value is above 0xFF, or 0
FirstBadByte(args) ==
    IF \E i \in DOMAIN args : args[i] > 255
    THEN 2 + CHOOSE i \in DOMAIN args :
                 /\ args[i] > 255
                 /\ \A j \in DOMAIN args : args[j] > 255 => i <= j
    ELSE 0

\* const u64 endOffset = offsetTo <= offsetFrom ? bufferSize : min(bufferSize, offsetTo)
EndOffset(bufferSize, offsetFrom, offsetTo) ==
    IF offsetTo <= offsetFrom THEN bufferSize ELSE Min(bufferSize, offsetTo)

\* offset < endOffset - sequence.size(), in u64: when sequence.size() exceeds
\* endOffset the difference wraps to 2^64 - (size - endOffset), which is above
\* every offset of the model
InLoop(offset, endOffset, len) ==
    IF endOffset >= len THEN offset < endOffset - len ELSE TRUE

\* ctx->readData(offset, bytes.data(), bytes.size()) inside the buffer
InBounds(buf, offset, len) == offset + len <= Len(buf)
ReadData(buf, offset, len) == SubSeq(buf, offset + 1, offset + len)

Found(o, n)    == [kind |-> "value", ret |-> o,  reads |-> n, oob |-> FALSE]
NotFound(n)    == [kind |-> "value", ret |-> -1, reads |-> n, oob |-> FALSE]
OutOfBuf(o, n) == [kind |-> "oob",   ret |-> o,  reads |-> n, oob |-> TRUE]

\* the scan loop; stops at the first read that leaves the buffer, whose
\* outcome is the host's
RECURSIVE Scan(_, _, _, _, _, _, _)
Scan(buf, sequence, occurrenceIndex, endOffset, offset, occurrences, reads) ==
    IF ~InLoop(offset, endOffset, Len(sequence))
    THEN NotFound(reads)
    ELSE IF ~InBounds(buf, offset, Len(sequence))
    THEN OutOfBuf(offset, reads + 1)
    ELSE IF ReadData(buf, offset, Len(sequence)) = sequence
    THEN IF occurrences < occurrenceIndex
         THEN Scan(buf, sequence, occurrenceIndex, endOffset,
                   offset + 1, occurrences + 1, reads + 1)
         ELSE Found(offset, reads + 1)
    ELSE Scan(buf, sequence, occurrenceIndex, endOffset,
              offset + 1, occurrences, reads + 1)

\* std::mem::find_sequence_in_range(occurrence_index, start_offset, end_offset, bytes...)
FindSequenceInRange(buf, occurrenceIndex, offsetFrom, offsetTo, args) ==
    IF FirstBadByte(args) # 0
    THEN [kind |-> "abort", ret |-> FirstBadByte(args), reads |-> 0, oob |-> FALSE]
    ELSE Scan(buf, args, occurrenceIndex,
              EndOffset(Len(buf), offsetFrom, offsetTo), offsetFrom, 0, 0)

\* what a call can yield: the computed result, or, once a read has left the
\* buffer, whatever the host makes of it (it signals, or the scan goes on
\* over bytes the buffer does not hold)
Outcomes(r) ==
    IF r.kind # "oob" THEN {r}
    ELSE {[kind |-> "hostabort", ret |-> r.ret, reads |-> r.reads, oob |-> TRUE]}
         \cup {[kind |-> "value", ret |-> o, reads |-> r.reads, oob |-> TRUE] :
                   o \in {-1} \cup {x \in Offsets : x >= r.ret}}

\* the calls tried: every choice of arguments
FindCalls ==
    [fn : {"find_sequence_in_range"}, occurrenceIndex : Indexes,
     offsetFrom : Offsets, offsetTo : Offsets, sequence : Sequences]

CallFindSequenceInRange ==
    /\ memCall.fn = "find_sequence_in_range"
    /\ memResult.kind = "none"
    /\ memResult' \in Outcomes(FindSequenceInRange(data, memCall.occurrenceIndex,
                                   memCall.offsetFrom, memCall.offsetTo,
                                   memCall.sequence))
    /\ UNCHANGED <<data, memCall>>
    /\ UNCHANGED <<fileVars, strVars>>

FileIdle ==
    /\ registry = RegCalls
    /\ dangerousAllowed = FALSE
    /\ fileCounter = 0
    /\ openFiles = << >>
    /\ lastCall = NoCall
    /\ result = NoResult
    /\ effect = NoEffect
    /\ closedIds = {}
    /\ issued = <<>>

InitMem ==
    /\ data \in Buffers
    /\ memCall \in FindCalls
    /\ memResult = [kind |-> "none"]
    /\ FileIdle
    /\ StrIdle

NextMem == CallFindSequenceInRange

SpecMem == InitMem /\ [][NextMem]_vars

(* ------------------ std::string::at, std::string::substr --------------- *)
Chars   == {"a", "b"}
Strings == SeqOver(Chars, MaxStr)
SignedIndexes == (0 - (MaxStr + 2))..(MaxStr + 2)
Lengths == 0..(MaxStr + 2)
\* the terminator std::string keeps at position length()
NUL == "NUL"

Abs(i) == IF i < 0 THEN 0 - i ELSE i

\* string[pos] for pos <= length(): the character, or the terminator at length()
CharAt(string, pos) == IF pos < Len(string) THEN string[pos + 1] ELSE NUL

StrAbort(m)     == [kind |-> "abort", msg |-> m, ch |-> NUL, pos |-> 0, str |-> <<>>]
StrChar(c, pos) == [kind |-> "char",   msg |-> "", ch |-> c,  pos |-> pos, str |-> <<>>]
StrString(t)    == [kind |-> "string", msg |-> "", ch |-> NUL, pos |-> 0, str |-> t]
OutOfRange == "character index out of range"

\* std::string::at(string, index)
At(string, index) ==
    IF Abs(index) > Len(string)
    THEN StrAbort(OutOfRange)
    ELSE IF index >= 0
    THEN StrChar(CharAt(string, index), index)
    ELSE StrChar(CharAt(string, Len(string) - (0 - index)), Len(string) - (0 - index))

\* a 128-bit unsigned literal (Token::literalToUnsigned), held as the bits
\* above bit 63 (hi) and the low 64 bits (lo): its value is hi * 2^64 + lo
Wide(hi, lo) == [hi |-> hi, lo |-> lo]
\* conversion of a u128 argument to size_t
ToSizeT(v)   == v.lo
\* v > n for a u128 v and a size_t n
Exceeds(v, n) == v.hi > 0 \/ v.lo > n
WideLengths == {Wide(hi, lo) : hi \in {0, 1}, lo \in Lengths}

\* std::string::substr(pos, n) of the C++ library, for pos <= size()
StdSubstr(string, pos, n) ==
    SubSeq(string, pos + 1, pos + Min(n, Len(string) - pos))

\* std::string::substr(string, pos, count)
Substr(string, pos, size) ==
    IF Exceeds(pos, Len(string))
    THEN StrAbort(OutOfRange)
    ELSE StrString(StdSubstr(string, ToSizeT(pos), ToSizeT(size)))

\* the calls tried: every choice of arguments
AtCalls     == [fn : {"at"}, string : Strings, index : SignedIndexes]
SubstrCalls == [fn : {"substr"}, string : Strings, pos : WideLengths, size : WideLengths]

CallAt ==
    /\ strCall.fn = "at"
    /\ strResult.kind = "none"
    /\ strResult' = At(strCall.string, strCall.index)
    /\ UNCHANGED strCall
    /\ UNCHANGED <<fileVars, memVars>>

CallSubstr ==
    /\ strCall.fn = "substr"
    /\ strResult.kind = "none"
    /\ strResult' = Substr(strCall.string, strCall.pos, strCall.size)
    /\ UNCHANGED strCall
    /\ UNCHANGED <<fileVars, memVars>>

InitStr ==
    /\ strCall \in AtCalls \cup SubstrCalls
    /\ strResult = [kind |-> "none"]
    /\ FileIdle
    /\ MemIdle

NextStr ==
    \/ CallAt
    \/ CallSubstr

SpecStr == InitStr /\ [][NextStr]_vars

(* ------------ std::mem::read_unsigned, std::mem::read_signed ----------- *)
\* if (size > 16) abortEvaluation("read size out of range")
MaxReadSize == 16
\* sizeof(u128), sizeof(i128)
ValueBytes == 16
\* size arguments tried: 1 .. 18 and the values 2^64 above them
ReadSizes == {Wide(hi, lo) : hi \in {0, 1}, lo \in 1..(MaxReadSize + 2)}
Addresses == 0..1
\* bytes the uninitialised i128 may hold above the bytes readData fills
Garbage == {0, 165, 255}
\* signed values laid out in the buffer
StoredValues == {-32769, -32768, -129, -128, -1, 0, 1, 127, 128, 32767, 32768}

Fill(b, n) == [i \in 1..n |-> b]

\* the n little-endian two's-complement bytes of v, as memory holds them
RECURSIVE ToBytes(_, _)
ToBytes(v, n) ==
    IF n = 0 THEN <<>> ELSE <<v % 256>> \o ToBytes(v \div 256, n - 1)

\* v fits n bytes (every value here fits 4 bytes or more)
Representable(v, n) ==
    n >= 4 \/ (v >= 0 - 2^(8 * n - 1) /\ v < 2^(8 * n - 1))

Stores ==
    {st \in [value : StoredValues, size : 1..MaxReadSize, address : Addresses] :
        Representable(st.value, st.size)}

\* a buffer holding st.value in st.size bytes at st.address
StoreAt(st) == Fill(17, st.address) \o ToBytes(st.value, st.size) \o <<17>>

ReadAbort    == [kind |-> "abort", msg |-> "read size out of range",
                 bytes |-> <<>>, reads |-> 0]
ReadValue(b) == [kind |-> "value", msg |-> "", bytes |-> b, reads |-> 1]
\* ctx->readData past the end of the data: the outcome is the host's
ReadPastEnd  == [kind |-> "oob", msg |-> "", bytes |-> <<>>, reads |-> 1]

\* hex::signExtend(numBits, value): the low numBits bits of value, sign-extended
\* to 128 bits; value is the 16 bytes of an i128, low byte first
SignExtend(numBits, value) ==
    LET n == numBits \div 8
    IN  SubSeq(value, 1, n) \o
        Fill(IF value[n] >= 128 THEN 255 ELSE 0, ValueBytes - n)

\* std::mem::read_unsigned(address, size): u128 result = 0; readData(address, &result, size)
ReadUnsigned(buf, address, size) ==
    IF Exceeds(size, MaxReadSize)
    THEN ReadAbort
    ELSE IF ~InBounds(buf, address, ToSizeT(size))
    THEN ReadPastEnd
    ELSE ReadValue(ReadData(buf, address, ToSizeT(size))
                   \o Fill(0, ValueBytes - ToSizeT(size)))

\* read_signed() that rejects size 16 as well
ReadSignedBelow16(buf, address, size, garbage) ==
    IF Exceeds(size, MaxReadSize - 1)
    THEN ReadAbort
    ELSE IF ~InBounds(buf, address, ToSizeT(size))
    THEN ReadPastEnd
    ELSE ReadValue(SignExtend(ToSizeT(size) * 8,
                      ReadData(buf, address, ToSizeT(size))
                      \o Fill(garbage, ValueBytes - ToSizeT(size))))

\* std::mem::read_signed(address, size): i128 value; readData(address, &value, size);
\* signExtend(size * 8, value). The bytes of value above size are not initialised.
ReadSigned(buf, address, size, garbage) ==
    IF Exceeds(size, MaxReadSize)
    THEN ReadAbort
    ELSE IF ~InBounds(buf, address, ToSizeT(size))
    THEN ReadPastEnd
    ELSE ReadValue(SignExtend(ToSizeT(size) * 8,
                      ReadData(buf, address, ToSizeT(size))
                      \o Fill(garbage, ValueBytes - ToSizeT(size))))

\* the calls tried, each over a buffer that holds a stored value
ReadCalls ==
    [fn : {"read_unsigned", "read_signed"}, address : Addresses,
     size : ReadSizes, stored : Stores]

CallReadUnsigned ==
    /\ memCall.fn = "read_unsigned"
    /\ memResult.kind = "none"
    /\ memResult' = ReadUnsigned(data, memCall.address, memCall.size)
    /\ UNCHANGED <<data, memCall>>
    /\ UNCHANGED <<fileVars, strVars>>

CallReadSigned ==
    /\ memCall.fn = "read_signed"
    /\ memResult.kind = "none"
    /\ \E garbage \in Garbage :
          memResult' = ReadSigned(data, memCall.address, memCall.size, garbage)
    /\ UNCHANGED <<data, memCall>>
    /\ UNCHANGED <<fileVars, strVars>>

InitRead ==
    /\ memCall \in ReadCalls
    /\ data = StoreAt(memCall.stored)
    /\ memResult = [kind |-> "none"]
    /\ FileIdle
    /\ StrIdle

NextRead ==
    \/ CallReadUnsigned
    \/ CallReadSigned

SpecRead == InitRead /\ [][NextRead]_vars

(* ===================== properties of the file table ==================== *)
HandleOps == {"close", "read", "write", "seek", "size", "resize", "flush", "remove"}
Range(f)  == {f[i] : i \in DOMAIN f}

\* C1: once close(h) has succeeded, every later close, read, write, seek,
\* size, resize, flush or remove on h aborts with "failed to access invalid
\* file", whatever opens happened in between.
C1_ClosedHandleStaysInvalid ==
    [][ (/\ lastCall'.fn \in HandleOps
         /\ lastCall'.file.hi = 0
         /\ lastCall'.file.lo \in closedIds)
            => result' = Abort(InvalidFile) ]_vars

\* a write on a closed handle was rejected after a later open had succeeded
C1_Witness ==
    /\ lastCall.fn = "write"
    /\ lastCall.file.hi = 0
    /\ lastCall.file.lo \in closedIds
    /\ fileCounter > lastCall.file.lo
    /\ DOMAIN openFiles # {}
    /\ result = Abort(InvalidFile)

\* C2: mapped ids are distinct issued ids, 0 is never issued, the first
\* successful open returns 1 and every open returns an id greater than all
\* ids returned before, so no id is issued twice, closed or not.
C2_IdsFreshAndIncreasing ==
    /\ 0 \notin Range(issued)
    /\ 0 \notin DOMAIN openFiles
    /\ issued # <<>> => issued[1] = 1
    /\ \A i, j \in DOMAIN issued : i < j => issued[i] < issued[j]
    /\ DOMAIN openFiles \subseteq Range(issued)
    /\ Cardinality(DOMAIN openFiles) + Cardinality(closedIds) = Len(issued)

\* an id was closed and a later open returned a new, larger id
C2_Witness ==
    /\ Len(issued) >= 2
    /\ closedIds # {}
    /\ lastCall.fn = "open"
    /\ result = Value(issued[Len(issued)])
    /\ \A h \in closedIds : h < result.val

\* the argument is the id of a currently mapped entry
IsMappedId(file) == file.hi = 0 /\ file.lo \in DOMAIN openFiles

\* C3: close, read, write, seek, size, resize, flush and remove called with
\* a value that is not the id of a mapped entry abort with "failed to access
\* invalid file", touch no file resource and leave the table and the counter
\* as they were.
C3_UnmappedIdRejected ==
    [][ (/\ lastCall'.fn \in HandleOps
         /\ result' # Refused
         /\ ~IsMappedId(lastCall'.file))
            => /\ result' = Abort(InvalidFile)
               /\ effect' = NoEffect
               /\ openFiles' = openFiles
               /\ fileCounter' = fileCounter ]_vars

\* C4: open aborts with "invalid file open mode" for a mode code outside
\* {1, 2, 3} and aborts when the file cannot be opened, in both cases without
\* consuming an id or adding an entry; on success the counter grows by one,
\* exactly the entry {new id -> resource} is added and the new id is returned.
C4_OpenContract ==
    [][ (lastCall'.fn = "open" /\ result' # Refused)
            => IF lastCall'.arg \notin {1, 2, 3}
               THEN /\ result' = Abort("invalid file open mode")
                    /\ fileCounter' = fileCounter
                    /\ openFiles' = openFiles
               ELSE IF ~lastCall'.valid
               THEN /\ result'.kind = "abort"
                    /\ fileCounter' = fileCounter
                    /\ openFiles' = openFiles
               ELSE /\ fileCounter' = fileCounter + 1
                    /\ fileCounter' \notin DOMAIN openFiles
                    /\ DOMAIN openFiles' = DOMAIN openFiles \cup {fileCounter'}
                    /\ openFiles'[fileCounter'] = lastCall'.path
                    /\ \A k \in DOMAIN openFiles : openFiles'[k] = openFiles[k]
                    /\ result' = Value(fileCounter') ]_vars

\* an open whose file could not be opened aborted, after an earlier success
C4_Witness ==
    /\ lastCall.fn = "open"
    /\ lastCall.arg \in {1, 2, 3}
    /\ ~lastCall.valid
    /\ result = Abort("failed to open file")
    /\ fileCounter >= 1
    /\ DOMAIN openFiles # {}

(* ==================== properties of the registrations ================== *)
\* C9: std.http.get and the nine std.file functions are registered Dangerous
\* and every other builtin Standard, so that while the host denies permission
\* no call has a network or file effect or changes the file-handle table.
C9_DangerousGated ==
    /\ \A i \in DOMAIN registry :
          registry[i].dangerous <=>
              \/ (registry[i].ns = "std.http" /\ registry[i].name = "get")
              \/ (registry[i].ns = "std.file" /\
                  registry[i].name \in HandleOps \cup {"open"})
    /\ RegistrationDone =>
          /\ IsDangerous("std.http", "get")
          /\ \A f \in HandleOps \cup {"open"} : IsDangerous("std.file", f)
    /\ ~dangerousAllowed =>
          /\ effect = NoEffect
          /\ openFiles = << >>
          /\ fileCounter = 0
          /\ result \in {NoResult, Refused}

\* a valid open in Create mode was refused under denied permission
C9_Witness ==
    /\ ~dangerousAllowed
    /\ lastCall.fn = "open"
    /\ lastCall.arg = 3
    /\ lastCall.valid
    /\ result = Refused

\* the documented builtin surface: namespace, name, argument count
Doc(ns, name, min, exact) == [ns |-> ns, name |-> name, min |-> min, exact |-> exact]
Documented ==
    { Doc("std", "print", 1, FALSE), Doc("std", "format", 1, FALSE),
      Doc("std", "env", 1, TRUE), Doc("std", "sizeof_pack", 0, FALSE),
      Doc("std", "error", 1, TRUE), Doc("std", "warning", 1, TRUE),
      Doc("std.mem", "base_address", 0, TRUE), Doc("std.mem", "size", 0, TRUE),
      Doc("std.mem", "find_sequence_in_range", 4, FALSE),
      Doc("std.mem", "read_unsigned", 2, TRUE), Doc("std.mem", "read_signed", 2, TRUE),
      Doc("std.mem", "read_string", 2, TRUE),
      Doc("std.string", "length", 1, TRUE), Doc("std.string", "at", 2, TRUE),
      Doc("std.string", "substr", 3, TRUE), Doc("std.string", "parse_int", 2, TRUE),
      Doc("std.string", "parse_float", 1, TRUE),
      Doc("std.http", "get", 1, TRUE),
      Doc("std.file", "open", 2, TRUE), Doc("std.file", "close", 1, TRUE),
      Doc("std.file", "read", 2, TRUE), Doc("std.file", "write", 2, TRUE),
      Doc("std.file", "seek", 2, TRUE), Doc("std.file", "size", 1, TRUE),
      Doc("std.file", "resize", 2, TRUE), Doc("std.file", "flush", 1, TRUE),
      Doc("std.file", "remove", 1, TRUE) }
    \cup { Doc("std.math", f, 1, TRUE) :
             f \in {"floor", "ceil", "round", "trunc", "log10", "log2", "ln",
                    "sqrt", "cbrt", "sin", "cos", "tan", "asin", "acos", "atan",
                    "sinh", "cosh", "tanh", "asinh", "acosh", "atanh"} }
    \cup { Doc("std.math", f, 2, TRUE) : f \in {"fmod", "pow", "atan2"} }

ArgCounts == 0..8
Accepts(count, k) ==
    CASE count.kind = "exactly"  -> k = count.n
      [] count.kind = "atLeast"  -> k >= count.n
      [] count.kind = "moreThan" -> k > count.n
DocAccepts(d, k) == IF d.exact THEN k = d.min ELSE k >= d.min
EntriesFor(ns, name) ==
    {i \in DOMAIN registry : registry[i].ns = ns /\ registry[i].name = name}

\* C10: after registerPatternLanguageFunctions the registry holds exactly one
\* entry per documented (namespace, name), with the documented arity, and
\* nothing else; std.math has atan2 with 2 arguments and atan with 1.
C10_RegistryMatchesSurface ==
    RegistrationDone =>
        /\ \A d \in Documented :
              /\ Cardinality(EntriesFor(d.ns, d.name)) = 1
              /\ \A i \in EntriesFor(d.ns, d.name), k \in ArgCounts :
                    Accepts(registry[i].count, k) <=> DocAccepts(d, k)
        /\ \A i \in DOMAIN registry :
              \E d \in Documented : d.ns = registry[i].ns /\ d.name = registry[i].name

\* what the registrations do give: every documented function except
\* std.math atan2 has an entry with the documented arity, atan has two
C10_Observed ==
    RegistrationDone =>
        /\ EntriesFor("std.math", "atan2") = {}
        /\ Cardinality(EntriesFor("std.math", "atan")) = 2
        /\ \A d \in Documented \ {Doc("std.math", "atan2", 2, TRUE)} :
              /\ EntriesFor(d.ns, d.name) # {}
              /\ \A i \in EntriesFor(d.ns, d.name), k \in ArgCounts :
                    Accepts(registry[i].count, k) <=> DocAccepts(d, k)

(* ============== properties of find_sequence_in_range =================== *)
IsFind ==
    /\ memCall.fn = "find_sequence_in_range"
    /\ memResult.kind # "none"
    /\ FirstBadByte(memCall.sequence) = 0
CallEnd == EndOffset(Len(data), memCall.offsetFrom, memCall.offsetTo)
\* length of the effective scan range [offsetFrom, endOffset)
RangeLen == IF CallEnd >= memCall.offsetFrom THEN CallEnd - memCall.offsetFrom ELSE 0
\* offsets at which the sequence lies in the buffer
OccursAt(buf, sequence) ==
    {o \in 0..Len(buf) : /\ o + Len(sequence) <= Len(buf)
                         /\ SubSeq(buf, o + 1, o + Len(sequence)) = sequence}

\* C5: when the effective scan range is shorter than the byte sequence,
\* find_sequence_in_range reads no candidate offset and returns -1, for every
\* occurrenceIndex, offsetFrom and offsetTo.
C5_ShortRangeReturnsMinusOne ==
    (IsFind /\ RangeLen < Len(memCall.sequence))
        => /\ memResult.kind = "value"
           /\ memResult.ret = -1
           /\ memResult.reads = 0

\* C6: over the whole buffer (offsetFrom = offsetTo = 0), if the sequence
\* occurs exactly once, at offset p, occurrenceIndex 0 yields p and
\* occurrenceIndex 1 yields -1, wherever the sequence fits.
C6_SingleOccurrenceFound ==
    (/\ IsFind
     /\ memCall.offsetFrom = 0
     /\ memCall.offsetTo = 0
     /\ Cardinality(OccursAt(data, memCall.sequence)) = 1)
        => /\ memResult.kind = "value"
           /\ memCall.occurrenceIndex = 0 => memResult.ret \in OccursAt(data, memCall.sequence)
           /\ memCall.occurrenceIndex = 1 => memResult.ret = -1

(* ===================== properties of std::string ======================= *)
\* C7: at(s, i) aborts with "character index out of range" for i >= length(s)
\* and for negative i with |i| > length(s); it returns s[i] for
\* 0 <= i < length(s) and s[length(s) + i] for negative i with
\* |i| <= length(s), and reads no position outside 0 .. length(s) - 1.
C7_AtContract ==
    (strCall.fn = "at" /\ strResult.kind # "none") =>
        LET s == strCall.string
            i == strCall.index
        IN  IF i >= Len(s) \/ (i < 0 /\ 0 - i > Len(s))
            THEN strResult = StrAbort(OutOfRange)
            ELSE /\ strResult.kind = "char"
                 /\ strResult.pos \in 0..(Len(s) - 1)
                 /\ strResult.ch = s[(IF i >= 0 THEN i ELSE Len(s) + i) + 1]

\* C8: substr(s, pos, count) aborts exactly when pos > length(s); otherwise
\* it returns the characters at positions pos .. min(pos + count, length(s)) - 1.
C8_SubstrContract ==
    (strCall.fn = "substr" /\ strResult.kind # "none") =>
        LET s    == strCall.string
            pos  == strCall.pos
            last == IF strCall.size.hi > 0 THEN Len(s)
                    ELSE Min(pos.lo + strCall.size.lo, Len(s))
        IN  /\ strResult.kind = "abort" <=> Exceeds(pos, Len(s))
            /\ ~Exceeds(pos, Len(s)) =>
                  /\ strResult.kind = "string"
                  /\ Len(strResult.str) = last - pos.lo
                  /\ \A j \in 1..(last - pos.lo) : strResult.str[j] = s[pos.lo + j]

(* ============ properties of read_unsigned / read_signed ================ *)
\* magnitudes are followed up to this limit and held at it beyond
Limit == 2^22
\* value of the bytes b[1..i] read as a base-256 number, low byte first
RECURSIVE Magnitude(_, _)
Magnitude(b, i) ==
    IF i = Len(b) + 1 THEN 0
    ELSE LET rest == Magnitude(b, i + 1)
         IN  IF rest >= Limit THEN Limit ELSE Min(rest * 256 + b[i], Limit)
\* two's-complement signed value of the bytes b, low byte first
SignedValue(b) ==
    IF b[Len(b)] < 128
    THEN Magnitude(b, 1)
    ELSE 0 - 1 - Magnitude([i \in DOMAIN b |-> 255 - b[i]], 1)

IsRead == memCall.fn \in {"read_unsigned", "read_signed"} /\ memResult.kind # "none"

MatchesInRange ==
    {o \in 0..Len(data) :
        /\ memCall.offsetFrom <= o
        /\ o < CallEnd - Len(memCall.sequence)
        /\ o + Len(memCall.sequence) <= Len(data)
        /\ SubSeq(data, o + 1, o + Len(memCall.sequence)) = memCall.sequence}

\* the element of S with exactly k smaller elements
KthSmallest(S, k) ==
    CHOOSE o \in S : Cardinality({x \in S : x < o}) = k

\* C12: with endOffset = dataSize if offsetTo <= offsetFrom else
\* min(dataSize, offsetTo), find_sequence_in_range returns the (k+1)-th
\* smallest offset o with offsetFrom <= o < endOffset - L at which the
\* sequence lies (overlapping matches counted), and -1 when there are fewer
\* than k+1 such offsets.
C12_KthMatchReturned ==
    IsFind =>
        /\ memResult.kind = "value"
        /\ memResult.ret =
              IF Cardinality(MatchesInRange) > memCall.occurrenceIndex
              THEN KthSmallest(MatchesInRange, memCall.occurrenceIndex)
              ELSE 0 - 1

\* the same statement where the sequence is no longer than endOffset, so
\* that endOffset - L does not wrap
C12_HoldsWithoutWrap ==
    (IsFind /\ CallEnd >= Len(memCall.sequence)) =>
        /\ memResult.kind = "value"
        /\ memResult.ret =
              IF Cardinality(MatchesInRange) > memCall.occurrenceIndex
              THEN KthSmallest(MatchesInRange, memCall.occurrenceIndex)
              ELSE 0 - 1

(* ================== frame of the file-handle table ===================== *)
\* C13: only open and close change the file-handle table: read, write, seek,
\* size, resize, flush and remove leave the mapped ids and the counter as
\* they were, and so does every call that aborts; after remove(id) the id is
\* still mapped, and close on a mapped id succeeds and unmaps it.
C13_OnlyOpenCloseChangeTable ==
    [][ /\ lastCall'.fn \notin {"open", "close"} =>
              /\ openFiles' = openFiles
              /\ fileCounter' = fileCounter
        /\ result'.kind = "abort" =>
              /\ openFiles' = openFiles
              /\ fileCounter' = fileCounter
        /\ (lastCall'.fn = "remove" /\ IsMappedId(lastCall'.file) /\ result' # Refused) =>
              /\ result' = Void
              /\ effect' = Effect("remove", lastCall'.file.lo)
              /\ lastCall'.file.lo \in DOMAIN openFiles'
        /\ (lastCall'.fn = "close" /\ IsMappedId(lastCall'.file) /\ result' # Refused) =>
              /\ result' = Void
              /\ DOMAIN openFiles' = DOMAIN openFiles \ {lastCall'.file.lo}
              /\ fileCounter' = fileCounter ]_vars

\* remove succeeded on a mapped id, which is still mapped next to another
\* handle, after some other handle had been closed
C13_Witness ==
    /\ lastCall.fn = "remove"
    /\ result = Void
    /\ effect = Effect("remove", lastCall.file.lo)
    /\ lastCall.file.lo \in DOMAIN openFiles
    /\ Cardinality(DOMAIN openFiles) >= 2
    /\ closedIds # {}

====
